---- MODULE Spec2Model ----
(***************************************************************************)
(* Model of the Tapo plug control service (src/main.py): the schedule     *)
(* file data/schedules.json, the APScheduler job table, the Flask request *)
(* handlers for /api/turn_on, /api/turn_off and /api/schedules, and the   *)
(* job callbacks the scheduler runs on its worker threads.                *)
(*                                                                         *)
(* Each request is served on its own thread (Flask's development server   *)
(* is threaded), so handlers interleave at every file-system call, device *)
(* call and scheduler call.  Each of those calls is one step.             *)
(***************************************************************************)
EXTENDS Integers, Sequences, FiniteSets, TLC

\* ------------------------------------------------------------- bounds
\* Number of HTTP requests in a behaviour (each on its own thread).
MaxReq == 2
\* Last trigger instant the model's wall clock reaches.
MaxTime == 3
\* Largest value of the (abstract) datetime.now().timestamp() reading.
MaxClock == 1
\* Number of failures (file I/O errors, device errors) in a behaviour.
MaxFaults == 1
\* Number of times the service process is restarted in a behaviour.
MaxRestarts == 1
\* Length of the rule lists handed to save_schedules on its own.
MaxRules == 2

\* ------------------------------------------------------------- inputs
Reqs == 1..MaxReq

\* Request bodies sent to POST /api/schedules: two in range, one with the
\* hour out of range, one with the minute out of range.
AddInputs ==
    { [action |-> "on",  hour |-> 7,  minute |-> 30],
      [action |-> "off", hour |-> 23, minute |-> 59],
      [action |-> "on",  hour |-> 24, minute |-> 0],
      [action |-> "off", hour |-> 7,  minute |-> 60] }

\* The times of day (minutes after midnight) at which the rules of AddInputs
\* trigger, in the order they occur in a day.  Trigger instant n is day
\* n \div 2 at time of day TimesOfDay[n % 2 + 1].
TimesOfDay == <<450, 1439>>

NoData == [action |-> "none", hour |-> 0, minute |-> 0]
NoId == <<-1, -1>>
\* An id no add_schedule ever generated (a client may DELETE any string).
UnknownId == <<-2, -2>>

\* ------------------------------------------------------------- state
VARIABLES
    file,      \* data/schedules.json: [st, text, size]
    jobs,      \* the scheduler's job table: set of [id, action, hour, minute, func,
               \*   since, next_run]
    reqs,      \* per request thread: [kind, pc, data, sid, loaded, local, result,
               \*   connects, commands]
    firings,   \* log of job runs: sequence of [id, action, func, at, pc, outcome,
               \*   connects, commands, sent]
    now,       \* index of the latest trigger instant the wall clock has reached
    clock,     \* latest datetime.now().timestamp() reading
    faults,    \* number of I/O and device failures so far
    proc       \* the service process: [up, restarts]

vars == <<file, jobs, reqs, firings, now, clock, faults, proc>>

\* ------------------------------------------------------------- helpers
Pending == [pending |-> TRUE]
Raised(e) == [raised |-> e]

Idle == [kind |-> "idle", pc |-> "idle", data |-> NoData, sid |-> NoId,
         loaded |-> <<>>, local |-> <<>>, result |-> Pending,
         connects |-> 0, commands |-> 0]

RECURSIVE SeqSum(_)
SeqSum(s) == IF s = <<>> THEN 0 ELSE Head(s) + SeqSum(Tail(s))

Digits(n) == IF n < 0 THEN 1 + (IF -n < 10 THEN 1 ELSE 2)
             ELSE IF n < 10 THEN 1 ELSE 2

ActionLen(a) == IF a = "on" THEN 2 ELSE 3

\* Bytes json.dump writes for one rule,
\*   {"id": "schedule_<len>_<timestamp>", "action": "..", "hour": h, "minute": m}
\* RuleFixedLen counts the punctuation, the keys and the id's fixed part
\* (timestamps are taken at their usual width of 17 characters).
RuleFixedLen == 73
RuleLen(r) == RuleFixedLen + Digits(r.id[1]) + ActionLen(r.action)
              + Digits(r.hour) + Digits(r.minute)

\* Bytes json.dump writes for a list of rules: "[" items joined by ", " "]".
JsonSize(rules) ==
    2 + SeqSum([i \in 1..Len(rules) |-> RuleLen(rules[i])])
      + (IF Len(rules) > 0 THEN 2 * (Len(rules) - 1) ELSE 0)

Ids(rules) == { rules[i].id : i \in 1..Len(rules) }
JobIds == { j.id : j \in jobs }

\* The comprehension with its test inverted: keeps the rules named sid.
FilterMatching(s, sid) == SelectSeq(s, LAMBDA x : x.id = sid)

\* [s for s in schedules if s["id"] != schedule_id]
RECURSIVE Filter(_, _)
Filter(s, sid) ==
    IF s = <<>> THEN <<>>
    ELSE IF Head(s).id # sid THEN <<Head(s)>> \o Filter(Tail(s), sid)
         ELSE Filter(Tail(s), sid)

\* ------------------------------------------------------------- schedule file
\* The file's text as the sequence of its JSON tokens: "[", "]", "," and one
\* token per object, which carries the object's members in written order.
Token(t) == [t |-> t, members |-> <<>>]

\* json.dump of one rule: its keys in the dict's insertion order (line 173).
DumpRule(r) ==
    [t |-> "object",
     members |-> << <<"id", r.id>>, <<"action", r.action>>,
                    <<"hour", r.hour>>, <<"minute", r.minute>> >>]

\* json.dump(schedules, f): "[", the rules separated by ",", "]".
RECURSIVE DumpItems(_)
DumpItems(rules) ==
    IF rules = <<>> THEN <<>>
    ELSE IF Len(rules) = 1 THEN <<DumpRule(rules[1])>>
    ELSE <<DumpRule(rules[1]), Token(",")>> \o DumpItems(Tail(rules))
Dump(rules) == <<Token("[")>> \o DumpItems(rules) \o <<Token("]")>>

\* json.load accepts one JSON document: here an array of objects, and
\* nothing after it.  An empty file and trailing data raise JSONDecodeError.
WellFormed(text) ==
    /\ Len(text) >= 2
    /\ text[1].t = "[" /\ text[Len(text)].t = "]"
    /\ Len(text) = 2 \/ Len(text) % 2 = 1
    /\ \A i \in 2..(Len(text) - 1) :
          text[i].t = (IF i % 2 = 0 THEN "object" ELSE ",")

\* The value json.load gives a member of an object: that of its last
\* occurrence in the text.
Member(members, key) ==
    members[CHOOSE n \in 1..Len(members) :
               /\ members[n][1] = key
               /\ \A m \in (n + 1)..Len(members) : members[m][1] # key][2]

\* An array that comes back in reverse order.
ParseReversed(text) ==
    [i \in 1..((Len(text) - 1) \div 2) |->
        LET m == text[Len(text) + 1 - 2 * i].members
        IN [id |-> Member(m, "id"), action |-> Member(m, "action"),
            hour |-> Member(m, "hour"), minute |-> Member(m, "minute")]]

\* json.load of a well-formed text: the list of dicts, in array order.
Parse(text) ==
    [i \in 1..((Len(text) - 1) \div 2) |->
        LET m == text[2 * i].members
        IN [id |-> Member(m, "id"), action |-> Member(m, "action"),
            hour |-> Member(m, "hour"), minute |-> Member(m, "minute")]]

\* load_schedules: [] when the file does not exist, the parsed list when it
\* holds a JSON document, JSONDecodeError when it is empty or garbled.
CanLoad(f) == f.st = "absent" \/ WellFormed(f.text)
load_schedules(f) == IF f.st = "absent" THEN <<>> ELSE Parse(f.text)

\* open(SCHEDULE_FILE, "w"): the file exists and is empty.
Truncated == [st |-> "present", text |-> <<>>, size |-> 0]

\* json.dump + close on a handle opened with "w": the bytes go to offset 0.
\* They replace the whole content unless another handle has meanwhile written
\* more bytes than these; then the longer document's tail stays behind them
\* and the file no longer parses.
Written(f, rules) ==
    IF JsonSize(rules) >= f.size
    THEN [st |-> "present", text |-> Dump(rules), size |-> JsonSize(rules)]
    ELSE [st |-> "present", text |-> Dump(rules) \o <<Token("tail")>>, size |-> f.size]

\* save_schedules(schedules) with no other handle open on the file.
save_schedules(schedules) == Written(Truncated, schedules)

\* ------------------------------------------------------------- trigger engine
TimeOfDay(n) == TimesOfDay[(n % Len(TimesOfDay)) + 1]

\* CronTrigger(hour=hour, minute=minute) raises ValueError when a field is
\* outside its range.
CronValid(hour, minute) == hour \in 0..23 /\ minute \in 0..59

\* CronTrigger.get_next_fire_time: the first instant after t at hour:minute.
NextFire(t, hour, minute) ==
    CHOOSE n \in (t + 1)..(t + Len(TimesOfDay)) : TimeOfDay(n) = hour * 60 + minute

\* schedule_job with its branches exchanged.
FuncSwapped(action) == IF action = "on" THEN "turn_off_plug" ELSE "turn_on_plug"

\* schedule_job's choice of callback: turn_on_plug if action == "on", else
\* turn_off_plug.
Func(action) == IF action = "on" THEN "turn_on_plug" ELSE "turn_off_plug"

\* The command a callback sends once connected: device.on() in
\* turn_on_plug, device.off() in turn_off_plug.
DeviceCall(func) == IF func = "turn_on_plug" THEN "on" ELSE "off"

Job(action, hour, minute, job_id) ==
    [id |-> job_id, action |-> action, hour |-> hour, minute |-> minute,
     func |-> Func(action), since |-> now, next_run |-> NextFire(now, hour, minute)]

\* add_job that keeps a job already registered under the id.
add_job_keeping(js, job) == js \cup {job}

\* scheduler.add_job(..., id=job_id, replace_existing=True)
add_job(js, job) == { j \in js : j.id # job.id } \cup {job}

\* scheduler.remove_job(job_id); JobLookupError is swallowed by the caller.
remove_job(js, job_id) == { j \in js : j.id # job_id }

\* A trigger that runs once: the job leaves the table when it is submitted.
RunOnce(js, j) == js \ {j}

\* The scheduler after submitting a due job: the job stays in the table with
\* its next fire time.
Rescheduled(js, j) ==
    (js \ {j}) \cup {[j EXCEPT !.next_run = NextFire(now, j.hour, j.minute)]}

\* schedule_job(action, hour, minute, job_id): the job table afterwards.
schedule_job(js, action, hour, minute, job_id) ==
    add_job(js, Job(action, hour, minute, job_id))

\* load_and_schedule's loop over the loaded schedules, starting from js.
RECURSIVE ScheduleAll(_, _)
ScheduleAll(js, schedules) ==
    IF schedules = <<>> THEN js
    ELSE LET s == Head(schedules)
         IN ScheduleAll(schedule_job(js, s.action, s.hour, s.minute, s.id), Tail(schedules))

\* __main__ gets past load_and_schedule(): the file loads and CronTrigger
\* accepts every rule.  Otherwise the exception ends the process.
StartupCompletes(f) ==
    /\ CanLoad(f)
    /\ \A i \in 1..Len(load_schedules(f)) :
          CronValid(load_schedules(f)[i].hour, load_schedules(f)[i].minute)

\* The job table of a fresh process after load_and_schedule().
load_and_schedule(f) == ScheduleAll({}, load_schedules(f))

\* ------------------------------------------------------------- initial state
\* What an earlier run of the service can have left in the file: nothing
\* (first run), or one rule that was created when the list held one other
\* rule, since deleted.
InitStores ==
    { <<>>,
      <<[id |-> <<1, 0>>, action |-> "on", hour |-> 7, minute |-> 30]>> }

InitFile(rules) ==
    IF rules = <<>> THEN [st |-> "absent", text |-> <<>>, size |-> 0]
    ELSE save_schedules(rules)

\* The process has started: load_and_schedule() has run on the file.
Init ==
    /\ \E rules \in InitStores : file = InitFile(rules)
    /\ now = 0
    /\ jobs = load_and_schedule(file)
    /\ proc = [up |-> TRUE, restarts |-> 0]
    /\ reqs = [r \in Reqs |-> Idle]
    /\ firings = <<>>
    /\ clock = 0
    /\ faults = 0

\* ------------------------------------------------------------- requests
\* The handler returns res or raises; its locals are gone.
Finish(r, res) ==
    reqs' = [reqs EXCEPT ![r].pc = "done", ![r].result = res,
                         ![r].loaded = <<>>, ![r].local = <<>>]

\* A call fails (the environment's choice), or does not.
Fails == faults < MaxFaults /\ faults' = faults + 1
Succeeds == faults' = faults

\* The ids a client can name in a DELETE: those it has seen listed or
\* returned or has named before, and any other string.
KnownIds ==
    (Ids(load_schedules(file)) \cup JobIds \cup { reqs[q].sid : q \in Reqs } \cup {UnknownId})
      \ {NoId}

\* A request arrives on the next free thread and its handler starts.
Arrives(r) ==
    /\ proc.up
    /\ reqs[r].kind = "idle"
    /\ \A q \in Reqs : q < r => reqs[q].kind # "idle"

\* ------------------------------------------------------------- get_schedules
\* What GET /api/schedules answers on file f: jsonify(load_schedules()), or
\* the JSONDecodeError json.load raises.
get_schedules(f) ==
    IF CanLoad(f) THEN [schedules |-> load_schedules(f)] ELSE Raised("JSONDecodeError")

\* GET /api/schedules: one read of the file.
GetSchedules(r) ==
    /\ Arrives(r)
    /\ reqs' = [reqs EXCEPT ![r] = [Idle EXCEPT !.kind = "get", !.pc = "done",
                                               !.result = get_schedules(file)]]
    /\ UNCHANGED <<file, jobs, firings, now, clock, faults, proc>>

\* ------------------------------------------------------------- add_schedule
\* f"schedule_{len(schedules)}_{datetime.now().timestamp()}": the wall clock
\* may not have advanced since the last reading.
ScheduleId(schedules, ts) == <<Len(schedules), ts>>

NewSchedule(sid, data) ==
    [id |-> sid, action |-> data.action, hour |-> data.hour, minute |-> data.minute]

\* POST /api/schedules with body data: add_schedule up to
\* schedules.append(new_schedule).
AddLoad(r) ==
    /\ Arrives(r)
    /\ \E data \in AddInputs :
         IF ~CanLoad(file)
         THEN /\ reqs' = [reqs EXCEPT ![r] = [Idle EXCEPT !.kind = "add", !.pc = "done", !.data = data,
                                                          !.result = Raised("JSONDecodeError")]]
              /\ UNCHANGED clock
         ELSE \E ts \in {clock, clock + 1} \cap (0..MaxClock) :
                LET schedules == load_schedules(file)
                    sid == ScheduleId(schedules, ts)
                IN /\ reqs' = [reqs EXCEPT ![r] = [Idle EXCEPT !.kind = "add", !.pc = "open", !.data = data,
                                                               !.sid = sid, !.loaded = schedules,
                                                               !.local = Append(schedules, NewSchedule(sid, data))]]
                   /\ clock' = ts
    /\ UNCHANGED <<file, jobs, firings, now, faults, proc>>

\* save_schedules: os.makedirs and open(SCHEDULE_FILE, "w").  Either may
\* raise OSError, and then the file is as it was.
SaveOpen(r) ==
    /\ reqs[r].kind \in {"add", "delete"} /\ reqs[r].pc = "open"
    /\ \/ /\ Succeeds
          /\ file' = Truncated
          /\ reqs' = [reqs EXCEPT ![r].pc = "write"]
       \/ /\ Fails
          /\ Finish(r, Raised("OSError"))
          /\ UNCHANGED file
    /\ UNCHANGED <<jobs, firings, now, clock, proc>>

\* save_schedules: json.dump and the close that flushes it.  A write error
\* leaves the file as the open left it.
SaveWrite(r) ==
    /\ reqs[r].kind \in {"add", "delete"} /\ reqs[r].pc = "write"
    /\ \/ /\ Succeeds
          /\ file' = Written(file, reqs[r].local)
          /\ reqs' = [reqs EXCEPT ![r].pc = IF reqs[r].kind = "add" THEN "arm" ELSE "unarm"]
       \/ /\ Fails
          /\ Finish(r, Raised("OSError"))
          /\ UNCHANGED file
    /\ UNCHANGED <<jobs, firings, now, clock, proc>>

\* add_schedule from schedule_job(...) to the response.
AddArm(r) ==
    /\ reqs[r].kind = "add" /\ reqs[r].pc = "arm"
    /\ LET d == reqs[r].data
       IN IF CronValid(d.hour, d.minute)
          THEN /\ jobs' = schedule_job(jobs, d.action, d.hour, d.minute, reqs[r].sid)
               /\ Finish(r, [success |-> TRUE, schedule |-> NewSchedule(reqs[r].sid, d)])
          ELSE /\ Finish(r, Raised("ValueError"))
               /\ UNCHANGED jobs
    /\ UNCHANGED <<file, firings, now, clock, faults, proc>>

\* ------------------------------------------------------------- delete_schedule
\* DELETE /api/schedules/<schedule_id>: delete_schedule up to the list
\* comprehension.
DeleteLoad(r) ==
    /\ Arrives(r)
    /\ \E schedule_id \in KnownIds :
         IF ~CanLoad(file)
         THEN reqs' = [reqs EXCEPT ![r] = [Idle EXCEPT !.kind = "delete", !.pc = "done", !.sid = schedule_id,
                                                      !.result = Raised("JSONDecodeError")]]
         ELSE LET schedules == load_schedules(file)
              IN reqs' = [reqs EXCEPT ![r] = [Idle EXCEPT !.kind = "delete", !.pc = "open", !.sid = schedule_id,
                                                         !.loaded = schedules,
                                                         !.local = Filter(schedules, schedule_id)]]
    /\ UNCHANGED <<file, jobs, firings, now, clock, faults, proc>>

DeleteUnarm(r) ==
    /\ reqs[r].kind = "delete" /\ reqs[r].pc = "unarm"
    /\ jobs' = remove_job(jobs, reqs[r].sid)
    /\ Finish(r, [success |-> TRUE])
    /\ UNCHANGED <<file, firings, now, clock, faults, proc>>

\* ------------------------------------------------------------- dispatch
\* A dispatch that un-arms its schedule when the device call fails.
AfterDispatchDisarming(js, id, ok) == IF ok THEN js ELSE { j \in js : j.id # id }

\* turn_on_plug / turn_off_plug touch the device only: the job table after a
\* dispatch for job `id` (NoId for a manual request) that ended ok or not.
AfterDispatch(js, id, ok) == js

\* turn_on / turn_off: the try/except around the dispatch.
DispatchResult(ok, e) ==
    IF ok THEN [success |-> TRUE] ELSE [success |-> FALSE, error |-> e]

\* The job callback, lambda: asyncio.run(turn_on_plug()): no try/except.
CallbackOutcome(ok) == IF ok THEN "returned" ELSE "raised"

\* A dispatch that calls the device again when a call raises.
RetryOnError(pc) == pc

\* turn_on_plug / turn_off_plug when get_device() or device.on()/off()
\* raises at step pc: the exception leaves the coroutine, which is over.
OnError(pc) == "done"

\* d after its call at step pc raised: over, or (were the call repeated) one
\* more call of that kind issued.
AfterError(d, pc) ==
    IF OnError(pc) = "connect" THEN [d EXCEPT !.connects = @ + 1]
    ELSE IF OnError(pc) = "command" THEN [d EXCEPT !.commands = @ + 1]
    ELSE [d EXCEPT !.pc = "done"]

\* The device does not answer, and nothing in main.py bounds the await
\* (no timeout argument, no asyncio.wait_for): the coroutine stays suspended.
Unanswered(d) == [d EXCEPT !.pc = "blocked"]

\* POST /api/turn_on or /api/turn_off: the handler calls get_device().
Dispatch(r) ==
    /\ Arrives(r)
    /\ \E k \in {"turn_on", "turn_off"} :
          reqs' = [reqs EXCEPT ![r].kind = k, ![r].pc = "connect", ![r].connects = 1]
    /\ UNCHANGED <<file, jobs, firings, now, clock, faults, proc>>

\* The except clause of turn_on / turn_off once the dispatch is over.
Caught(d, e) ==
    IF d.pc = "done" THEN [d EXCEPT !.result = DispatchResult(FALSE, e)] ELSE d

\* await get_device() in a manual request.
Connect(r) ==
    /\ reqs[r].kind \in {"turn_on", "turn_off"} /\ reqs[r].pc = "connect"
    /\ \/ /\ Succeeds
          /\ reqs' = [reqs EXCEPT ![r].pc = "command", ![r].commands = 1]
          /\ jobs' = jobs
       \/ /\ Fails
          /\ reqs' = [reqs EXCEPT ![r] = Caught(AfterError(@, "connect"), "connect")]
          /\ jobs' = AfterDispatch(jobs, NoId, FALSE)
       \/ /\ Fails
          /\ reqs' = [reqs EXCEPT ![r] = Unanswered(@)]
          /\ jobs' = jobs
    /\ UNCHANGED <<file, firings, now, clock, proc>>

\* await device.on() / device.off() in a manual request.
Command(r) ==
    /\ reqs[r].kind \in {"turn_on", "turn_off"} /\ reqs[r].pc = "command"
    /\ \/ /\ Succeeds
          /\ Finish(r, DispatchResult(TRUE, "command"))
          /\ jobs' = AfterDispatch(jobs, NoId, TRUE)
       \/ /\ Fails
          /\ reqs' = [reqs EXCEPT ![r] = Caught(AfterError(@, "command"), "command")]
          /\ jobs' = AfterDispatch(jobs, NoId, FALSE)
       \/ /\ Fails
          /\ reqs' = [reqs EXCEPT ![r] = Unanswered(@)]
          /\ jobs' = jobs
    /\ UNCHANGED <<file, firings, now, clock, proc>>

\* ------------------------------------------------------------- scheduler
\* The scheduler thread submits a due job to its executor, which runs the
\* callback on a worker thread; the job stays registered for its next
\* occurrence.  Callbacks of different submissions run concurrently.
Fire(j) ==
    /\ j \in jobs /\ j.next_run <= now
    /\ jobs' = Rescheduled(jobs, j)
    /\ firings' = Append(firings, [id |-> j.id, action |-> j.action, func |-> j.func,
                                   at |-> now, pc |-> "connect", outcome |-> "none",
                                   connects |-> 1, commands |-> 0, sent |-> "none"])
    /\ UNCHANGED <<file, reqs, now, clock, faults, proc>>

\* The exception leaves the job's lambda once the dispatch is over.
Uncaught(d) ==
    IF d.pc = "done" THEN [d EXCEPT !.outcome = CallbackOutcome(FALSE)] ELSE d

\* await get_device() in a job callback.
FireConnect(i) ==
    /\ i \in 1..Len(firings) /\ firings[i].pc = "connect"
    /\ \/ /\ Succeeds
          /\ firings' = [firings EXCEPT ![i].pc = "command", ![i].commands = 1,
                                        ![i].sent = DeviceCall(firings[i].func)]
          /\ jobs' = jobs
       \/ /\ Fails
          /\ firings' = [firings EXCEPT ![i] = Uncaught(AfterError(@, "connect"))]
          /\ jobs' = AfterDispatch(jobs, firings[i].id, FALSE)
       \/ /\ Fails
          /\ firings' = [firings EXCEPT ![i] = Unanswered(@)]
          /\ jobs' = jobs
    /\ UNCHANGED <<file, reqs, now, clock, proc>>

\* await device.on() / device.off() in a job callback.
FireCommand(i) ==
    /\ i \in 1..Len(firings) /\ firings[i].pc = "command"
    /\ \/ /\ Succeeds
          /\ firings' = [firings EXCEPT ![i].pc = "done", ![i].outcome = CallbackOutcome(TRUE)]
          /\ jobs' = AfterDispatch(jobs, firings[i].id, TRUE)
       \/ /\ Fails
          /\ firings' = [firings EXCEPT ![i] = Uncaught(AfterError(@, "command"))]
          /\ jobs' = AfterDispatch(jobs, firings[i].id, FALSE)
       \/ /\ Fails
          /\ firings' = [firings EXCEPT ![i] = Unanswered(@)]
          /\ jobs' = jobs
    /\ UNCHANGED <<file, reqs, now, clock, proc>>

\* The wall clock reaches the next trigger instant; the scheduler thread has
\* by then submitted every job that was due.
Tick ==
    /\ now < MaxTime
    /\ \A j \in jobs : j.next_run > now
    /\ now' = now + 1
    /\ UNCHANGED <<file, jobs, reqs, firings, clock, faults, proc>>

\* The service is stopped while no request or callback is running and
\* started again: a new process with an empty scheduler runs
\* load_and_schedule(), and serves requests if that does not raise.
Restart ==
    /\ proc.restarts < MaxRestarts
    /\ \A r \in Reqs : reqs[r].pc \in {"idle", "done"}
    /\ \A i \in 1..Len(firings) : firings[i].pc = "done"
    /\ proc' = [up |-> StartupCompletes(file), restarts |-> proc.restarts + 1]
    /\ jobs' = IF StartupCompletes(file) THEN load_and_schedule(file) ELSE {}
    /\ UNCHANGED <<file, reqs, firings, now, clock, faults>>

Next ==
    \/ \E r \in Reqs : Dispatch(r)
    \/ \E r \in Reqs : GetSchedules(r)
    \/ \E r \in Reqs : AddLoad(r)
    \/ \E r \in Reqs : SaveOpen(r)
    \/ \E r \in Reqs : SaveWrite(r)
    \/ \E r \in Reqs : AddArm(r)
    \/ \E r \in Reqs : DeleteLoad(r)
    \/ \E r \in Reqs : DeleteUnarm(r)
    \/ \E r \in Reqs : Connect(r)
    \/ \E r \in Reqs : Command(r)
    \/ \E j \in jobs : Fire(j)
    \/ \E i \in 1..Len(firings) : FireConnect(i)
    \/ \E i \in 1..Len(firings) : FireCommand(i)
    \/ Tick
    \/ Restart

Spec == Init /\ [][Next]_vars

\* Clients that wait for each response before sending the next request: a
\* request arrives only when no other request is in progress.
Arrival == \E r \in Reqs : reqs[r].kind = "idle" /\ reqs'[r].kind # "idle"
SeqNext == Next /\ (Arrival => \A q \in Reqs : reqs[q].pc \in {"idle", "done"})
SeqSpec == Init /\ [][SeqNext]_vars

\* ------------------------------------------------------------- file round trip
\* save_schedules and load_schedules called on their own, one call at a time,
\* on lists of rules as add_schedule builds them.  Thread 1 holds the
\* caller's locals: the list last saved and the list last loaded.
RtRules == { NewSchedule(ScheduleId(<<>>, 0), d) : d \in AddInputs }
RtLists == UNION { [1..n -> RtRules] : n \in 0..MaxRules }

RtInit == Init /\ file.st = "absent"

RtSave ==
    /\ \E rules \in RtLists :
         /\ file' = save_schedules(rules)
         /\ reqs' = [reqs EXCEPT ![1].kind = "roundtrip", ![1].pc = "saved",
                                  ![1].local = rules]
    /\ UNCHANGED <<jobs, firings, now, clock, faults, proc>>

RtLoad ==
    /\ CanLoad(file)
    /\ reqs' = [reqs EXCEPT ![1].kind = "roundtrip", ![1].pc = "loaded",
                             ![1].loaded = load_schedules(file)]
    /\ UNCHANGED <<file, jobs, firings, now, clock, faults, proc>>

RtResave ==
    /\ CanLoad(file)
    /\ file' = save_schedules(load_schedules(file))
    /\ reqs' = [reqs EXCEPT ![1].kind = "roundtrip", ![1].pc = "resaved"]
    /\ UNCHANGED <<jobs, firings, now, clock, faults, proc>>

RtNext == RtSave \/ RtLoad \/ RtResave
RtSpec == RtInit /\ [][RtNext]_vars

\* ------------------------------------------------------------- vocabulary
Manual(r) == reqs[r].kind \in {"turn_on", "turn_off"}
Mutation(r) == reqs[r].kind \in {"add", "delete"}
Done(r) == reqs[r].pc = "done"
Success(r) ==
    /\ Done(r)
    /\ "success" \in DOMAIN reqs[r].result
    /\ reqs[r].result.success
Failed(r, e) ==
    /\ Done(r)
    /\ "raised" \in DOMAIN reqs[r].result
    /\ reqs[r].result.raised = e
Running(i) == firings[i].pc # "done"
Stored == load_schedules(file)
Quiet == \A r \in Reqs : Mutation(r) => Done(r)

\* ------------------------------------------------------------- C1
\* C1: connect+command sequences never overlap: at no instant are two
\* dispatches (manual requests or job callbacks) both between the start of
\* get_device() and the completion of device.on()/device.off().
C1_NoOverlap ==
    Cardinality({ r \in Reqs : Manual(r) /\ ~Done(r) })
      + Cardinality({ i \in 1..Len(firings) : Running(i) }) <= 1

\* ------------------------------------------------------------- C2
\* C2: once concurrent add_schedule/delete_schedule requests have all
\* returned (no file or device call having failed), every rule whose add
\* returned success and was not deleted is in the persisted collection, and
\* every deleted id is absent from it.
C2_NoLostUpdate ==
    (faults = 0 /\ \A r \in Reqs : reqs[r].kind # "idle" => Done(r)) =>
        /\ \A r \in Reqs :
             (reqs[r].kind = "add" /\ Success(r)
                /\ ~\E q \in Reqs : reqs[q].kind = "delete" /\ reqs[q].sid = reqs[r].sid)
             => (CanLoad(file) /\ reqs[r].sid \in Ids(Stored))
        /\ \A q \in Reqs :
             (reqs[q].kind = "delete" /\ Success(q))
             => (CanLoad(file) /\ reqs[q].sid \notin Ids(Stored))

\* ------------------------------------------------------------- C3
\* C3: whenever no add_schedule/delete_schedule request is in progress, the
\* ids in the persisted store are exactly the ids with an armed timer (here
\* even with every request body in range and no file or device call failing).
C3_StoreMatchesTimers ==
    (/\ Quiet
     /\ faults = 0
     /\ \A r \in Reqs : reqs[r].kind = "add" => CronValid(reqs[r].data.hour, reqs[r].data.minute))
    => (CanLoad(file) /\ Ids(Stored) = JobIds)

\* ------------------------------------------------------------- C4
\* C4: an add_schedule request with hour outside 0..23 or minute outside
\* 0..59 never persists its rule and never reaches schedule_job/CronTrigger.
C4_InvalidRejected ==
    /\ \A i \in 1..Len(Stored) : CronValid(Stored[i].hour, Stored[i].minute)
    /\ \A r \in Reqs :
         (reqs[r].kind = "add" /\ ~CronValid(reqs[r].data.hour, reqs[r].data.minute))
         => (reqs[r].pc # "arm" /\ ~Failed(r, "ValueError"))

\* ------------------------------------------------------------- C5
\* C5: when save_schedules fails in add_schedule or delete_schedule, the
\* timer set is unchanged and the file still loads as the collection the
\* request read.
C5_FailedSaveAborts ==
    [][ \A r \in Reqs :
          (reqs[r].pc \in {"open", "write"} /\ reqs'[r].pc = "done"
             /\ reqs'[r].result = Raised("OSError"))
          => (jobs' = jobs /\ CanLoad(file') /\ load_schedules(file') = reqs[r].loaded) ]_vars

\* ------------------------------------------------------------- C6
\* C6: each rule id has at most one armed timer, and no trigger instant
\* produces two firings for one id.
C6_OneTimerPerId ==
    /\ \A j1, j2 \in jobs : j1.id = j2.id => j1 = j2
    /\ \A i1, i2 \in 1..Len(firings) :
         (firings[i1].id = firings[i2].id /\ firings[i1].at = firings[i2].at) => i1 = i2

\* schedule_job was called for an id that was armed (two adds generated the
\* same id with different bodies), and the id's only timer has fired.
C6_Replaced ==
    \E r1, r2 \in Reqs :
        /\ r1 # r2
        /\ reqs[r1].kind = "add" /\ reqs[r2].kind = "add"
        /\ Success(r1) /\ Success(r2)
        /\ reqs[r1].sid = reqs[r2].sid
        /\ reqs[r1].data # reqs[r2].data
        /\ \E j \in jobs : j.id = reqs[r1].sid
        /\ \E i \in 1..Len(firings) : firings[i].id = reqs[r1].sid

\* ------------------------------------------------------------- C7
\* C7: once delete_schedule(id) has returned, no new firing for that id
\* begins.
C7_NoFiringAfterDelete ==
    [][ Len(firings') > Len(firings) =>
          ~\E r \in Reqs : /\ reqs[r].kind = "delete" /\ Success(r)
                           /\ reqs[r].sid = firings'[Len(firings')].id ]_vars

\* ------------------------------------------------------------- C8
\* Every occurrence of an armed rule's hour:minute since it was armed has
\* produced a firing with the rule's action, or is due right now.
FiresAtEveryOccurrence ==
    \A j \in jobs : \A n \in (j.since + 1)..now :
        TimeOfDay(n) = j.hour * 60 + j.minute =>
            \/ n = now /\ j.next_run = now
            \/ \E i \in 1..Len(firings) :
                 firings[i].id = j.id /\ firings[i].at = n /\ firings[i].action = j.action

\* A firing leaves its rule armed, unchanged, and due again one day later.
FiringKeepsArmed ==
    Len(firings') > Len(firings) =>
        LET f == firings'[Len(firings')]
        IN \A j \in jobs : (j.id = f.id /\ j.next_run <= now) =>
             [j EXCEPT !.next_run = f.at + Len(TimesOfDay)] \in jobs'

\* The callback's end, whether it returned or raised, leaves the timers alone.
OutcomeKeepsArmed ==
    (\E i \in 1..Len(firings) : Running(i) /\ firings'[i].pc = "done") => jobs' = jobs

\* C8: an armed rule fires at every daily occurrence of its hour:minute and
\* is armed again after each firing, whether the dispatch succeeded or raised.
C8_Recurs ==
    /\ []FiresAtEveryOccurrence
    /\ [][FiringKeepsArmed /\ OutcomeKeepsArmed]_vars

\* A rule's callback raised, and the rule fired again at its next occurrence.
C8_FiredAgainAfterFailure ==
    \E i, k \in 1..Len(firings) :
        /\ firings[i].id = firings[k].id
        /\ firings[i].outcome = "raised"
        /\ firings[k].at = firings[i].at + Len(TimesOfDay)
        /\ \E j \in jobs : j.id = firings[i].id

\* ------------------------------------------------------------- C9
\* C9: every dispatch ends in a structured result (success, plus an error
\* message iff success is false); no exception escapes to its caller.
C9_StructuredResult ==
    /\ \A r \in Reqs : (Manual(r) /\ Done(r)) =>
         /\ "success" \in DOMAIN reqs[r].result
         /\ ("error" \in DOMAIN reqs[r].result) <=> ~reqs[r].result.success
    /\ \A i \in 1..Len(firings) : firings[i].outcome # "raised"

\* ------------------------------------------------------------- C10
\* A step of a dispatch: a manual request's or a job callback's device call
\* ends.
DispatchStep ==
    \/ \E r \in Reqs : Manual(r) /\ ~Done(r) /\ reqs'[r] # reqs[r]
    \/ \E i \in 1..Len(firings) : Running(i) /\ firings'[i] # firings[i]

\* C10: a dispatch, whether it succeeds or fails, leaves the persisted store
\* and the armed timer set unchanged.
C10_DispatchFrame ==
    [][DispatchStep => (file' = file /\ jobs' = jobs)]_vars

\* A job callback failed, and another rule that was armed before the failure
\* is still armed and has fired at its next trigger time.
C10_OthersStillFire ==
    \E i, k \in 1..Len(firings) :
        /\ firings[i].outcome = "raised"
        /\ firings[k].id # firings[i].id
        /\ firings[k].at > firings[i].at
        /\ \E j \in jobs : j.id = firings[k].id /\ j.since < firings[i].at
        /\ \E j \in jobs : j.id = firings[i].id
        /\ CanLoad(file) /\ Ids(Stored) = JobIds

\* ------------------------------------------------------------- C11
\* A delete_schedule request returns.
DeleteReturns(r) ==
    reqs[r].kind = "delete" /\ reqs[r].pc = "unarm" /\ reqs'[r].pc = "done"

\* C11: delete_schedule is idempotent when requests come one at a time.  A
\* delete whose file calls succeed returns success; afterwards neither the
\* store nor the job table holds the id; and when the id was not in the
\* store (as after a first delete of it) the store's content and the job
\* table are what they were.
C11_DeleteIdempotent ==
    [][ \A r \in Reqs : DeleteReturns(r) =>
          /\ reqs'[r].result = [success |-> TRUE]
          /\ CanLoad(file')
          /\ reqs[r].sid \notin Ids(load_schedules(file'))
          /\ reqs[r].sid \notin { j.id : j \in jobs' }
          /\ reqs[r].sid \notin Ids(reqs[r].loaded) =>
                (load_schedules(file') = reqs[r].loaded /\ jobs' = jobs) ]_vars

\* A rule that was stored and armed was deleted twice, both times with
\* success.
C11_DeletedTwice ==
    \E r1, r2 \in Reqs :
        /\ r1 # r2
        /\ reqs[r1].kind = "delete" /\ Success(r1)
        /\ reqs[r2].kind = "delete" /\ Success(r2)
        /\ reqs[r1].sid = reqs[r2].sid
        /\ \E rules \in InitStores : reqs[r1].sid \in Ids(rules)

\* ------------------------------------------------------------- C12
\* The job table holds exactly one job for rule s, with its action and time.
Armed(js, s) ==
    Cardinality({ j \in js : j.id = s.id }) = 1
    /\ \E j \in js : /\ j.id = s.id /\ j.action = s.action
                     /\ j.hour = s.hour /\ j.minute = s.minute

\* C12: when a restarted process has completed load_and_schedule(), every
\* rule in the file has exactly one job with that rule's action, hour and
\* minute, and no job carries an id that is not in the file.
C12_RestartRestoresTimers ==
    [][ (proc'.restarts > proc.restarts /\ proc'.up) =>
          /\ \A i \in 1..Len(load_schedules(file')) : Armed(jobs', load_schedules(file')[i])
          /\ { j.id : j \in jobs' } \subseteq Ids(load_schedules(file')) ]_vars

\* ------------------------------------------------------------- C13
\* C13: ids are unique: no two add_schedule requests return the same id, and
\* no two rules in the file share an id.
C13_UniqueIds ==
    /\ \A r1, r2 \in Reqs :
          (reqs[r1].kind = "add" /\ Success(r1) /\ reqs[r2].kind = "add" /\ Success(r2)
             /\ reqs[r1].result.schedule.id = reqs[r2].result.schedule.id)
          => r1 = r2
    /\ \A i, k \in 1..Len(Stored) : Stored[i].id = Stored[k].id => i = k

\* ------------------------------------------------------------- C14
\* C14: no dispatch hangs: every manual request and every job callback has
\* returned or can still take a step towards returning.
C14_DispatchReturns ==
    /\ \A r \in Reqs : Manual(r) => (Done(r) \/ ENABLED (Connect(r) \/ Command(r)))
    /\ \A i \in 1..Len(firings) :
          firings[i].pc = "done" \/ ENABLED (FireConnect(i) \/ FireCommand(i))

\* ------------------------------------------------------------- C15
\* C15: a dispatch never retries: no manual request and no job callback
\* issues more than one connect or more than one on/off command.
C15_NoRetry ==
    /\ \A r \in Reqs : reqs[r].connects <= 1 /\ reqs[r].commands <= 1
    /\ \A i \in 1..Len(firings) : firings[i].connects <= 1 /\ firings[i].commands <= 1

\* A manual request whose on/off command raised is over after one connect
\* and one command, and a job callback has run to its end as well.
C15_FailedOnce ==
    /\ \E r \in Reqs : /\ Manual(r) /\ Done(r) /\ ~reqs[r].result.success
                       /\ reqs[r].connects = 1 /\ reqs[r].commands = 1
    /\ \E i \in 1..Len(firings) : /\ firings[i].outcome = "returned"
                                   /\ firings[i].connects = 1 /\ firings[i].commands = 1

\* ------------------------------------------------------------- C16
\* An add_schedule request that returned success and whose id no
\* delete_schedule request has named.
AddedNotDeleted(r) ==
    /\ reqs[r].kind = "add" /\ Success(r)
    /\ \A q \in Reqs : reqs[q].kind = "delete" => reqs[q].sid # reqs[r].sid

\* C16: once add_schedule has returned success, the rule is armed and
\* get_schedules lists it until it is deleted (stated for the instants at
\* which no add or delete is in progress and no I/O or device call has
\* failed).
C16_AddedIsListed ==
    (faults = 0 /\ Quiet /\ proc.up) =>
        \A r \in Reqs : AddedNotDeleted(r) =>
            /\ reqs[r].sid \in JobIds
            /\ "schedules" \in DOMAIN get_schedules(file)
            /\ \E i \in 1..Len(Stored) : Stored[i] = reqs[r].result.schedule

\* ------------------------------------------------------------- C17
\* C17: file round trip.  load_schedules after save_schedules(rules) returns
\* rules in the same order, and [] while no file exists; and
\* save_schedules(load_schedules()) leaves the stored list as it was, and
\* the text of a file that existed as it was.
C17_RoundTrip ==
    /\ [](reqs[1].pc = "loaded" => reqs[1].loaded = reqs[1].local)
    /\ [][ reqs'[1].pc = "saved" =>
             (CanLoad(file') /\ load_schedules(file') = reqs'[1].local) ]_vars
    /\ [][ (reqs'[1].pc = "resaved" /\ file' # file) =>
             /\ file.st = "absent"
             /\ CanLoad(file') /\ load_schedules(file') = load_schedules(file) ]_vars

\* A list of two different rules was saved and loaded back.
C17_LoadedTwoRules ==
    /\ reqs[1].pc = "loaded" /\ file.st = "present"
    /\ Len(reqs[1].loaded) = 2 /\ reqs[1].loaded[1] # reqs[1].loaded[2]

\* ------------------------------------------------------------- C18
\* The rules that were armed under an id: those a successful add_schedule
\* created and those the file held when the service first started.
RulesArmed ==
    { reqs[r].result.schedule : r \in { q \in Reqs : reqs[q].kind = "add" /\ Success(q) } }
      \cup UNION { { rules[i] : i \in 1..Len(rules) } : rules \in InitStores }

\* C18: each firing invokes the action of the rule it was armed for: its id
\* and action are those of a rule armed under that id; for action "on" the
\* callback is turn_on_plug and the command sent is on, for "off" it is
\* turn_off_plug and off; never the opposite command.
C18_FiresConfiguredAction ==
    \A i \in 1..Len(firings) :
        /\ \E s \in RulesArmed : s.id = firings[i].id /\ s.action = firings[i].action
        /\ firings[i].action = "on" =>
              (firings[i].func = "turn_on_plug" /\ firings[i].sent \in {"none", "on"})
        /\ firings[i].action = "off" =>
              (firings[i].func = "turn_off_plug" /\ firings[i].sent \in {"none", "off"})

\* An "on" rule and an "off" rule have both fired and sent their commands.
C18_BothFired ==
    \E i, k \in 1..Len(firings) :
        /\ firings[i].action = "on" /\ firings[i].sent = "on"
        /\ firings[k].action = "off" /\ firings[k].sent = "off"
        /\ firings[i].id # firings[k].id

\* ------------------------------------------------------------- C19
\* C19: a load_schedules call that overlaps another request's
\* save_schedules reads a whole list: while no I/O call has failed, no
\* get_schedules, add_schedule or delete_schedule ends in the
\* JSONDecodeError of an empty or garbled file.
C19_ReadsWholeFile ==
    faults = 0 => \A r \in Reqs : ~Failed(r, "JSONDecodeError")

\* ------------------------------------------------------------- C20
\* Request r starts to overwrite the file (its save_schedules opens it).
SaveBegins(r) == Mutation(r) /\ reqs[r].pc = "open" /\ reqs'[r].pc = "write"

\* add_schedule request r arms its job and returns.
AddReturns(r) == reqs[r].kind = "add" /\ reqs[r].pc = "arm" /\ Success(r)'

\* C20: add_schedule and delete_schedule change only their own rule.  The
\* list a request writes over a readable file is that file's list with the
\* new rule appended (add) or with the rules of the given id removed
\* (delete), the rest in the same order; add_schedule arming one more job
\* (its id not armed before) leaves the others as they are; delete_schedule
\* removes no job of another id and adds none.
C20_OnlyOwnRule ==
    [][ \A r \in Reqs :
          /\ (SaveBegins(r) /\ CanLoad(file)) =>
                reqs[r].local =
                    IF reqs[r].kind = "add"
                    THEN Append(Stored, NewSchedule(reqs[r].sid, reqs[r].data))
                    ELSE Filter(Stored, reqs[r].sid)
          /\ (AddReturns(r) /\ reqs[r].sid \notin JobIds) =>
                (jobs \subseteq jobs' /\ Cardinality(jobs') = Cardinality(jobs) + 1)
          /\ DeleteReturns(r) =>
                (jobs' \subseteq jobs /\ \A j \in jobs : j.id # reqs[r].sid => j \in jobs') ]_vars

====
